---- MODULE Spec2Model ----
(***************************************************************************)
(* Comment-analysis pipeline of the analytics micro-service:               *)
(*   comment_analysis_handler  (app/api/handlers.py)                       *)
(*   prune_comments            (app/services/prune.py)                     *)
(*   analyze_comments, analyze_comments_batch, _analyze_single_batch       *)
(*                             (app/services/comment_inference.py)         *)
(* A comment is a sequence of one-character strings.  The structured       *)
(* completion collaborator (create_openai_completion) is the environment:  *)
(* each awaited call is answered by any response of Responses, or raises.  *)
(***************************************************************************)
EXTENDS Integers, Sequences, FiniteSets, Bags, TLC

\* ------------------------------------------------------------------------
\* Bounds of the model
MaxComments  == 3   \* longest "comments" list given in full
MaxMinLength == 2   \* largest explicit min_length
MaxBatchSize == 2   \* largest explicit batch_size
MaxRecords   == 2   \* most analysis objects the collaborator returns per request
MaxExtra     == 2   \* long lists: most occurrences of a comment beside the bulk
MaxAnalyses  == 3   \* longest record list the statistics are computed over

\* Program constants
SampleCap             == 500  \* prune.py: min(500, len(comments))
PruneDefaultMinLength == 20   \* prune.py: min_length: int = 20
DefaultMinLength      == 10   \* handlers.py: payload.get("min_length", 10)
DefaultBatchSize      == 20   \* handlers.py: payload.get("batch_size", 20)

\* ------------------------------------------------------------------------
\* Strings
Whitespace == {" ", "\t", "\n"}

\* The comments prune_comments is called with: stripped lengths 0, 1, 2, 3.
CommentPool ==
    { <<" ", " ">>, <<" ", "a", "\n">>, <<"\t", "a", "b">>, <<"a", " ", "b", " ">> }

\* The comments the request payloads are built from: stripped lengths 0, 3.
RequestPool == { <<" ", " ">>, <<"a", " ", "b", " ">> }

RECURSIVE lstrip(_)
lstrip(s) == IF s = <<>> \/ Head(s) \notin Whitespace THEN s ELSE lstrip(Tail(s))

RECURSIVE rstrip(_)
rstrip(s) ==
    IF s = <<>> \/ s[Len(s)] \notin Whitespace THEN s
    ELSE rstrip(SubSeq(s, 1, Len(s) - 1))

\* str.strip(): leading and trailing whitespace removed, inner whitespace kept
strip(s) == rstrip(lstrip(s))

\* ------------------------------------------------------------------------
\* Python helpers
Min(a, b) == IF a <= b THEN a ELSE b

\* dict.get(key, default); an optional key is <<>> (absent) or <<value>>
Get(opt, default) == IF opt = <<>> THEN default ELSE opt[1]

\* seq[lo:hi] for 0 <= lo <= hi (zero-based, hi clipped to the length)
Slice(seq, lo, hi) == [j \in 1 .. (Min(hi, Len(seq)) - lo) |-> seq[lo + j]]

\* seq[idx] with Python's negative indices; IndexError outside [-len, len)
PyIndexValid(seq, idx) == -Len(seq) <= idx /\ idx < Len(seq)
PyIndex(seq, idx) == IF idx >= 0 THEN seq[idx + 1] ELSE seq[Len(seq) + idx + 1]

\* ------------------------------------------------------------------------
\* prune_comments
\* (variant: the cap forgotten)
sample_size_uncapped(n) == n

sample_size(n) == Min(SampleCap, n)

\* np.random.choice(a, size=size, replace=False): every arrangement of
\* `size` distinct positions of a
Choice(a, size) ==
    { [j \in 1 .. size |-> a[p[j]]] :
        p \in { q \in [1 .. size -> 1 .. Len(a)] :
                  \A x, y \in 1 .. size : x # y => q[x] # q[y] } }

\* (variant: the length taken without strip())
RetainedUnstripped(comment, min_length) == Len(comment) >= min_length

Retained(comment, min_length) == Len(strip(comment)) >= min_length

RECURSIVE LengthPruning(_, _, _)
LengthPruning(sample, min_length, kept) ==
    IF sample = <<>> THEN kept
    ELSE LengthPruning(Tail(sample), min_length,
                       IF Retained(Head(sample), min_length)
                       THEN Append(kept, Head(sample)) ELSE kept)

\* ------------------------------------------------------------------------
\* The collaborator's structured output
SentimentType == {"positive", "negative", "neutral", "mixed"}

\* topic labels: two differ only in case
Topics == {"pricing", "Pricing", "bug report"}

\* (product_sentiment, has_issue, issue_description, topic) of the analysis
\* objects the collaborator answers a request with
Verdicts ==
    { [product_sentiment |-> "positive", has_issue |-> FALSE,
       issue_description |-> "None",  topic |-> "pricing"],
      [product_sentiment |-> "mixed",    has_issue |-> TRUE,
       issue_description |-> "crash", topic |-> "Pricing"] }

\* CommentAnalysisResult objects for a batch: comment_index is any integer,
\* here from one below -len(batch) to len(batch)
AnalysisObjects(batch) ==
    { [comment_index |-> ix, product_sentiment |-> v.product_sentiment,
       has_issue |-> v.has_issue, issue_description |-> v.issue_description,
       topic |-> v.topic] :
        ix \in -(Len(batch) + 1) .. Len(batch), v \in Verdicts }

SeqsUpTo(S, n) == UNION { [1 .. k -> S] : k \in 0 .. n }

NoToolCalls == [tool_calls |-> FALSE, json_ok |-> FALSE, schema_ok |-> FALSE,
                analyses |-> <<>>]
InvalidJson == [tool_calls |-> TRUE, json_ok |-> FALSE, schema_ok |-> FALSE,
                analyses |-> <<>>]
SchemaMismatch == [tool_calls |-> TRUE, json_ok |-> TRUE, schema_ok |-> FALSE,
                   analyses |-> <<>>]

\* what create_openai_completion may return for a batch, with at most n
\* analysis objects
Responses(batch, n) ==
    {NoToolCalls, InvalidJson, SchemaMismatch} \cup
    { [tool_calls |-> TRUE, json_ok |-> TRUE, schema_ok |-> TRUE, analyses |-> as] :
        as \in SeqsUpTo(AnalysisObjects(batch), n) }

\* The two ways a structured payload can violate the schema contract:
\* json.loads or BatchAnalysisResult(**result_data) rejects it, or one of its
\* comment_index values is outside [0, len(batch))
Parses(response) == response.json_ok /\ response.schema_ok

InRange(batch, response) ==
    \A k \in 1 .. Len(response.analyses) :
        /\ 0 <= response.analyses[k].comment_index
        /\ response.analyses[k].comment_index < Len(batch)

\* ------------------------------------------------------------------------
\* analyze_comments_batch / _analyze_single_batch
\* (variant: the slice one element too long)
BatchOverlapping(comments, i, size) == Slice(comments, i, i + size + 1)

\* batch = comments[i:i+batch_size]
Batch(comments, i, size) == Slice(comments, i, i + size)

\* (variant: the range one step too long)
HasNextBatchInclusive(i, comments) == i <= Len(comments)

\* for i in range(0, len(comments), batch_size)
HasNextBatch(i, comments) == i < Len(comments)

ToRecord(batch, start_index, analysis) ==
    [comment           |-> PyIndex(batch, analysis.comment_index),
     original_index    |-> start_index + analysis.comment_index,
     product_sentiment |-> analysis.product_sentiment,
     has_issue         |-> analysis.has_issue,
     issue_description |-> analysis.issue_description,
     topic             |-> analysis.topic]

\* (variant: a response without tool calls treated as an error)
ParseResponseStrict(batch, start_index, response) ==
    IF ~response.tool_calls
    THEN [raised |-> "ValueError", records |-> <<>>]
    ELSE IF ~response.json_ok
    THEN [raised |-> "JSONDecodeError", records |-> <<>>]
    ELSE IF ~response.schema_ok
    THEN [raised |-> "ValidationError", records |-> <<>>]
    ELSE IF \E k \in 1 .. Len(response.analyses) :
               ~PyIndexValid(batch, response.analyses[k].comment_index)
    THEN [raised |-> "IndexError", records |-> <<>>]
    ELSE [raised |-> "None",
          records |-> [k \in 1 .. Len(response.analyses) |->
                          ToRecord(batch, start_index, response.analyses[k])]]

\* the part of _analyze_single_batch after the awaited call: the exception it
\* raises ("None" when it returns) and the list it returns
ParseResponse(batch, start_index, response) ==
    IF ~response.tool_calls
    THEN [raised |-> "None", records |-> <<>>]
    ELSE IF ~response.json_ok
    THEN [raised |-> "JSONDecodeError", records |-> <<>>]
    ELSE IF ~response.schema_ok
    THEN [raised |-> "ValidationError", records |-> <<>>]
    ELSE IF \E k \in 1 .. Len(response.analyses) :
               ~PyIndexValid(batch, response.analyses[k].comment_index)
    THEN [raised |-> "IndexError", records |-> <<>>]
    ELSE [raised |-> "None",
          records |-> [k \in 1 .. Len(response.analyses) |->
                          ToRecord(batch, start_index, response.analyses[k])]]

\* ------------------------------------------------------------------------
\* analyze_comments: aggregate statistics
\* sum(1 for a in analyses if a["product_sentiment"] == s)
SentimentCount(analyses, s) ==
    Cardinality({k \in 1 .. Len(analyses) : analyses[k].product_sentiment = s})

\* sum(1 for a in analyses if a["has_issue"])
IssueCount(analyses) ==
    Cardinality({k \in 1 .. Len(analyses) : analyses[k].has_issue})

\* (variant: the "mixed" bucket never counted)
ComputeStatsNoMixed(analyses) ==
    [total_analyzed |-> Len(analyses),
     sentiment_breakdown |->
        [positive |-> SentimentCount(analyses, "positive"),
         negative |-> SentimentCount(analyses, "negative"),
         neutral  |-> SentimentCount(analyses, "neutral"),
         mixed    |-> 0],
     issues_found  |-> IssueCount(analyses),
     unique_topics |-> Cardinality({analyses[k].topic : k \in 1 .. Len(analyses)})]

ComputeStats(analyses) ==
    [total_analyzed |-> Len(analyses),
     sentiment_breakdown |->
        [positive |-> SentimentCount(analyses, "positive"),
         negative |-> SentimentCount(analyses, "negative"),
         neutral  |-> SentimentCount(analyses, "neutral"),
         mixed    |-> SentimentCount(analyses, "mixed")],
     issues_found  |-> IssueCount(analyses),
     unique_topics |-> Cardinality({analyses[k].topic : k \in 1 .. Len(analyses)})]

\* ------------------------------------------------------------------------
\* State
VARIABLES
    pc,             \* control position: "idle", "loop", "await", "done", "raised"
                    \* for a request; "prune", "pruned" and "stats", "returned"
                    \* for the calls of PruneSpec and StatsSpec
    prune_call,     \* the frame of a prune_comments call: comments, min_length,
                    \* sample; "None" outside such a call
    kept_comments,  \* prune_comments' result, the analyzer's comments
    n_comments,     \* handler: len(comments), all it reads of comments after pruning
    batch_size,     \* handler: payload.get("batch_size", 20)
    i,              \* analyze_comments_batch: start offset of the next batch
    calls,          \* the collaborator calls issued so far, in order
    replies,        \* the collaborator's answers received so far, in order,
                    \* each with the records _analyze_single_batch made of it
    all_results,    \* analyze_comments_batch: the records accumulated
    err,            \* the exception that ended the request, "None" if none
    analysis_results, \* what analyze_comments returned, "None" before
    res             \* the handler's response, "None" until it returns

vars == <<pc, prune_call, kept_comments, n_comments, batch_size, i, calls,
          replies, all_results, err, analysis_results, res>>

\* the request bodies: every key is optional
Payloads ==
    [comments   : {<<>>} \cup { <<c>> : c \in SeqsUpTo(RequestPool, MaxComments) },
     min_length : {<<>>} \cup { <<m>> : m \in 0 .. MaxMinLength },
     batch_size : {<<>>} \cup { <<b>> : b \in 1 .. MaxBatchSize }]

Init ==
    /\ pc = "idle"
    /\ prune_call = "None"
    /\ kept_comments = <<>>
    /\ n_comments = 0
    /\ batch_size = DefaultBatchSize
    /\ i = 0
    /\ calls = <<>>
    /\ replies = <<>>
    /\ all_results = <<>>
    /\ err = "None"
    /\ analysis_results = "None"
    /\ res = "None"

\* comment_analysis_handler up to the first await: read the payload, prune
\* (sample, then filter by stripped length), enter analyze_comments_batch
Request ==
    /\ pc = "idle"
    /\ \E payload \in Payloads :
          LET comments   == Get(payload.comments, <<>>)
              min_length == Get(payload.min_length, DefaultMinLength)
          IN /\ \E sample \in Choice(comments, sample_size(Len(comments))) :
                   kept_comments' = LengthPruning(sample, min_length, <<>>)
             /\ n_comments' = Len(comments)
             /\ batch_size' = Get(payload.batch_size, DefaultBatchSize)
    /\ pc' = "loop"
    /\ i' = 0
    /\ UNCHANGED <<prune_call, calls, replies, all_results, err, analysis_results, res>>

\* loop head of analyze_comments_batch up to the await in _analyze_single_batch
IssueCall ==
    /\ pc = "loop"
    /\ HasNextBatch(i, kept_comments)
    /\ calls' = Append(calls, [start_index |-> i,
                               batch |-> Batch(kept_comments, i, batch_size)])
    /\ pc' = "await"
    /\ UNCHANGED <<prune_call, kept_comments, n_comments, batch_size, i, replies,
                   all_results, err, analysis_results, res>>

\* the awaited call returns: parse, extend all_results, next batch
ReceiveResponse ==
    /\ pc = "await"
    /\ LET call == calls[Len(calls)] IN
       \E response \in Responses(call.batch, MaxRecords - Len(all_results)) :
          LET out == ParseResponse(call.batch, call.start_index, response) IN
          /\ replies' = Append(replies, [tool_calls |-> response.tool_calls,
                                         parses   |-> Parses(response),
                                         in_range |-> InRange(call.batch, response),
                                         records  |-> out.records])
          /\ IF out.raised = "None"
             THEN /\ all_results' = all_results \o out.records
                  /\ i' = i + batch_size
                  /\ pc' = "loop"
                  /\ err' = err
             ELSE /\ pc' = "raised"
                  /\ err' = out.raised
                  /\ UNCHANGED <<all_results, i>>
    /\ UNCHANGED <<prune_call, kept_comments, n_comments, batch_size, calls,
                   analysis_results, res>>

\* the awaited call raises (collaborator unreachable, timeout): nothing catches it
CollaboratorRaises ==
    /\ pc = "await"
    /\ pc' = "raised"
    /\ err' = "CollaboratorError"
    /\ UNCHANGED <<prune_call, kept_comments, n_comments, batch_size, i, calls,
                   replies, all_results, analysis_results, res>>

\* analyze_comments' return value
AnalysisResult(analyses) == [analyses |-> analyses, stats |-> ComputeStats(analyses)]

\* loop exit: analyze_comments computes the stats, the handler builds res
Return ==
    /\ pc = "loop"
    /\ ~HasNextBatch(i, kept_comments)
    /\ analysis_results' = AnalysisResult(all_results)
    /\ res' = [analyses |-> analysis_results'.analyses,
               analysis_stats |-> analysis_results'.stats,
               pruning_info |->
                  [kept_comments |-> kept_comments,
                   all_commentsstats |->
                      [total |-> n_comments, kept |-> Len(kept_comments)]]]
    /\ pc' = "done"
    /\ UNCHANGED <<prune_call, kept_comments, n_comments, batch_size, i, calls,
                   replies, all_results, err>>

Next ==
    \/ Request
    \/ IssueCall
    \/ ReceiveResponse
    \/ CollaboratorRaises
    \/ Return

Spec == Init /\ [][Next]_vars

\* ------------------------------------------------------------------------
\* prune_comments called on its own.  A list of at most MaxComments comments
\* is given in full.  A list around the sample cap is given by its bag
\* (value -> number of occurrences), and so are its sample and its result:
\* their order plays no part in their size or in the multiplicity of values.
ToBag(f) == [c \in {x \in DOMAIN f : f[x] > 0} |-> f[c]]

RECURSIVE SumOver(_, _)
SumOver(f, S) ==
    IF S = {} THEN 0
    ELSE LET x == CHOOSE y \in S : TRUE IN f[x] + SumOver(f, S \ {x})

\* np.random.choice(a, size=size, replace=False) on bags: the sub-bags of a
\* with `size` elements
ChoiceBag(a, size) ==
    LET S == BagToSet(a) IN
    IF S = {} THEN {EmptyBag}
    ELSE LET p      == CHOOSE v \in S : \A w \in S : a[v] >= a[w]
             others == S \ {p}
             top    == IF others = {} THEN 0
                       ELSE a[CHOOSE v \in others : \A w \in others : a[v] >= a[w]]
         IN { ToBag([c \in S |-> IF c = p THEN size - SumOver(k, others) ELSE k[c]]) :
                k \in { q \in [others -> 0 .. top] :
                          /\ \A c \in others : q[c] <= a[c]
                          /\ size - SumOver(q, others) >= 0
                          /\ size - SumOver(q, others) <= a[p] } }

\* the length-pruning loop on a bag
LengthPruningBag(sample, min_length) ==
    [c \in {x \in BagToSet(sample) : Retained(x, min_length)} |-> sample[c]]

\* lists of SampleCap - 1 to SampleCap + 3 * MaxExtra comments
LongLists ==
    { ToBag(f) (+) [c \in {v} |-> m] :
        f \in [CommentPool -> 0 .. MaxExtra], v \in CommentPool,
        m \in (SampleCap - 1) .. SampleCap }

MinLengths == (0 .. MaxMinLength) \cup {PruneDefaultMinLength}

PruneInit ==
    /\ pc = "prune"
    /\ prune_call \in
          [long : {FALSE}, comments : SeqsUpTo(CommentPool, MaxComments),
           min_length : MinLengths, sample : {<<>>}]
          \cup
          [long : {TRUE}, comments : LongLists,
           min_length : MinLengths, sample : {EmptyBag}]
    /\ kept_comments = <<>>
    /\ n_comments = 0
    /\ batch_size = DefaultBatchSize
    /\ i = 0
    /\ calls = <<>>
    /\ replies = <<>>
    /\ all_results = <<>>
    /\ err = "None"
    /\ analysis_results = "None"
    /\ res = "None"

\* prune_comments(comments, min_length) on a list given in full
PruneShort ==
    /\ pc = "prune"
    /\ ~prune_call.long
    /\ \E sample \in Choice(prune_call.comments,
                            sample_size(Len(prune_call.comments))) :
          /\ prune_call' = [prune_call EXCEPT !.sample = sample]
          /\ kept_comments' = LengthPruning(sample, prune_call.min_length, <<>>)
    /\ pc' = "pruned"
    /\ UNCHANGED <<n_comments, batch_size, i, calls, replies, all_results, err,
                   analysis_results, res>>

\* prune_comments(comments, min_length) on a list given by its bag
PruneLong ==
    /\ pc = "prune"
    /\ prune_call.long
    /\ \E sample \in ChoiceBag(prune_call.comments,
                               sample_size(BagCardinality(prune_call.comments))) :
          /\ prune_call' = [prune_call EXCEPT !.sample = sample]
          /\ kept_comments' = LengthPruningBag(sample, prune_call.min_length)
    /\ pc' = "pruned"
    /\ UNCHANGED <<n_comments, batch_size, i, calls, replies, all_results, err,
                   analysis_results, res>>

PruneNext ==
    \/ PruneShort
    \/ PruneLong

PruneSpec == PruneInit /\ [][PruneNext]_vars

\* ------------------------------------------------------------------------
\* The statistics of analyze_comments on their own: analyze_comments_batch
\* has returned a list of records, any the schema admits
StatRecords ==
    [comment : {<<"a", " ", "b", " ">>}, original_index : {0},
     product_sentiment : SentimentType, has_issue : BOOLEAN,
     issue_description : {"None"}, topic : Topics]

StatsInit ==
    /\ pc = "stats"
    /\ all_results \in SeqsUpTo(StatRecords, MaxAnalyses)
    /\ prune_call = "None"
    /\ kept_comments = <<>>
    /\ n_comments = 0
    /\ batch_size = DefaultBatchSize
    /\ i = 0
    /\ calls = <<>>
    /\ replies = <<>>
    /\ err = "None"
    /\ analysis_results = "None"
    /\ res = "None"

\* analyze_comments after the await: stats and return value
Aggregate ==
    /\ pc = "stats"
    /\ analysis_results' = AnalysisResult(all_results)
    /\ pc' = "returned"
    /\ UNCHANGED <<prune_call, kept_comments, n_comments, batch_size, i, calls,
                   replies, all_results, err, res>>

StatsNext == Aggregate

StatsSpec == StatsInit /\ [][StatsNext]_vars

\* ------------------------------------------------------------------------
\* Properties
\* ------------------------------------------------------------------------
\* ceil(n / b): the number of chunks of n comments in batches of b
NumChunks(n, b) == (n + b - 1) \div b

\* comments[k*b .. min((k+1)*b, n) - 1], k counted from zero
Chunk(comments, k, b) ==
    [j \in 1 .. (Min((k + 1) * b, Len(comments)) - k * b) |-> comments[k * b + j]]

RECURSIVE Flatten(_)
Flatten(seqs) == IF seqs = <<>> THEN <<>> ELSE Head(seqs) \o Flatten(Tail(seqs))

CallBatches == [k \in 1 .. Len(calls) |-> calls[k].batch]
ReplyRecords == [k \in 1 .. Len(replies) |-> replies[k].records]

\* after the k-th reply the loop went on: the next call was issued, or the
\* loop stands at (or has left at) the next start offset
WentOn(k) ==
    \/ Len(calls) > k
    \/ pc \in {"loop", "done"} /\ i = k * batch_size

\* C1: the collaborator calls are the chunks comments[k*b .. min((k+1)*b, n)-1]
\* in increasing k, each issued only after the previous call was answered;
\* the chunks are full except possibly the last, and when analyze_comments
\* returns there are exactly ceil(n/b) of them, covering every comment once.
C1_SequentialChunks ==
    pc # "idle" =>
    LET n == Len(kept_comments)
        b == batch_size
    IN /\ Len(calls) <= NumChunks(n, b)
       /\ \A k \in 0 .. Len(calls) - 1 :
             /\ calls[k + 1].start_index = k * b
             /\ calls[k + 1].batch = Chunk(kept_comments, k, b)
             /\ Len(calls[k + 1].batch) >= 1
             /\ Len(calls[k + 1].batch) <= b
             /\ k + 1 < NumChunks(n, b) => Len(calls[k + 1].batch) = b
       /\ Len(replies) <= Len(calls)
       /\ Len(calls) <= Len(replies) + 1
       /\ pc = "await" => Len(calls) = Len(replies) + 1
       /\ pc \in {"loop", "done"} => Len(calls) = Len(replies)
       /\ pc = "done" => /\ Len(calls) = NumChunks(n, b)
                         /\ Flatten(CallBatches) = kept_comments

\* C1 witness: three comments in batches of two were sent as chunks of 2 and 1
C1_Witness ==
    /\ pc = "done"
    /\ Len(kept_comments) = 3
    /\ batch_size = 2
    /\ Len(calls) = 2
    /\ Len(calls[1].batch) = 2
    /\ Len(calls[2].batch) = 1

\* C2: every record has 0 <= original_index < n and original_index =
\* start_index + comment_index for a chunk issued at start_index and a
\* comment_index in [0, chunk length).
C2_OriginalIndexInRange ==
    \A r \in 1 .. Len(all_results) :
        /\ 0 <= all_results[r].original_index
        /\ all_results[r].original_index < Len(kept_comments)
        /\ \E k \in 1 .. Len(calls) :
              \E ci \in 0 .. Len(calls[k].batch) - 1 :
                 all_results[r].original_index = calls[k].start_index + ci

\* a reply whose structured payload does not parse or has a comment_index
\* outside [0, chunk length)
Malformed(reply) == reply.tool_calls /\ (~reply.parses \/ ~reply.in_range)

\* C3: a chunk whose payload fails to parse or has an out-of-range
\* comment_index contributes no record and does not end the analysis: the
\* loop goes on to the remaining chunks.
C3_MalformedChunkAbsorbed ==
    \A k \in 1 .. Len(replies) :
        Malformed(replies[k]) =>
            /\ replies[k].records = <<>>
            /\ Len(calls) = k => pc # "raised"
            /\ WentOn(k)

\* C4: a chunk answered without tool calls contributes no record and does
\* not end the analysis: the loop goes on to the following chunks, and the
\* result holds exactly the records of the other chunks, with the total
\* counted over them.
C4_NoToolCallsChunkSkipped ==
    /\ \A k \in 1 .. Len(replies) :
          ~replies[k].tool_calls =>
              /\ replies[k].records = <<>>
              /\ Len(calls) = k => pc # "raised"
              /\ WentOn(k)
    /\ pc = "done" =>
          /\ analysis_results.analyses = Flatten(ReplyRecords)
          /\ analysis_results.stats.total_analyzed = Len(Flatten(ReplyRecords))
          /\ res.analyses = analysis_results.analyses
          /\ res.analysis_stats = analysis_results.stats

\* C4 witness: a chunk without tool calls was followed by a chunk with records
C4_Witness ==
    /\ pc = "done"
    /\ \E k \in 1 .. Len(replies) :
          /\ ~replies[k].tool_calls
          /\ \E m \in k + 1 .. Len(replies) : replies[m].records # <<>>
    /\ res.analyses # <<>>

ZeroStats ==
    [total_analyzed |-> 0,
     sentiment_breakdown |-> [positive |-> 0, negative |-> 0, neutral |-> 0, mixed |-> 0],
     issues_found |-> 0,
     unique_topics |-> 0]

\* C5: when the reducer's output is empty, no collaborator call is issued,
\* nothing is raised, the request can return and, once it has, the analyses
\* are empty and every statistic is zero.
C5_EmptyReducerOutput ==
    (pc # "idle" /\ kept_comments = <<>>) =>
        /\ calls = <<>>
        /\ err = "None"
        /\ pc \in {"loop", "done"}
        /\ pc = "loop" => ENABLED Return
        /\ pc = "done" => /\ analysis_results = [analyses |-> <<>>, stats |-> ZeroStats]
                          /\ res.analyses = <<>>
                          /\ res.analysis_stats = ZeroStats

\* C5 witness: a non-empty list whose comments were all too short was answered
C5_Witness ==
    /\ pc = "done"
    /\ kept_comments = <<>>
    /\ n_comments > 0
    /\ res.analysis_stats.total_analyzed = 0

\* C6: in every result the four sentiment buckets sum to total_analyzed,
\* which is the number of records; issues_found and unique_topics are at most
\* total_analyzed, and topics that differ as strings count separately.
C6_StatsConsistent ==
    pc = "returned" =>
    LET st == analysis_results.stats
        sb == st.sentiment_breakdown
        as == analysis_results.analyses
    IN /\ sb.positive + sb.negative + sb.neutral + sb.mixed = st.total_analyzed
       /\ st.total_analyzed = Len(as)
       /\ as = all_results
       /\ st.issues_found <= st.total_analyzed
       /\ st.unique_topics <= st.total_analyzed
       /\ \A T \in SUBSET Topics :
             (\A t \in T : \E x \in 1 .. Len(as) : as[x].topic = t)
                => st.unique_topics >= Cardinality(T)

\* C6 witness: three records, two of them mixed, with topics differing only
\* in case, were aggregated
C6_Witness ==
    /\ pc = "returned"
    /\ Len(analysis_results.analyses) = 3
    /\ analysis_results.analyses[1].topic = "pricing"
    /\ analysis_results.analyses[2].topic = "Pricing"
    /\ analysis_results.analyses[3].topic = "pricing"
    /\ analysis_results.analyses[1].product_sentiment = "mixed"
    /\ analysis_results.analyses[2].product_sentiment = "mixed"
    /\ analysis_results.analyses[3].product_sentiment = "neutral"
    /\ analysis_results.stats.unique_topics = 2
    /\ analysis_results.stats.sentiment_breakdown.mixed = 2

\* the bag of a list
RECURSIVE SeqToBag(_)
SeqToBag(seq) ==
    IF seq = <<>> THEN EmptyBag ELSE SetToBag({Head(seq)}) (+) SeqToBag(Tail(seq))

\* the argument, the sample and the result of a prune_comments call, as bags
PruneInput  == IF prune_call.long THEN prune_call.comments ELSE SeqToBag(prune_call.comments)
PruneSample == IF prune_call.long THEN prune_call.sample ELSE SeqToBag(prune_call.sample)
PruneOutput == IF prune_call.long THEN kept_comments ELSE SeqToBag(kept_comments)

\* C7: every comment prune_comments returns has stripped length >= min_length,
\* and every sampled comment of that length is returned (as often as it was
\* sampled); with min_length 0 the whole sample is returned.
C7_LengthFilter ==
    pc = "pruned" =>
        /\ \A c \in BagToSet(PruneOutput) : Len(strip(c)) >= prune_call.min_length
        /\ \A c \in BagToSet(PruneSample) :
              Len(strip(c)) >= prune_call.min_length =>
                  CopiesIn(c, PruneOutput) = CopiesIn(c, PruneSample)
        /\ prune_call.min_length = 0 => kept_comments = prune_call.sample

\* C7 witness: of a sample, a comment with surrounding whitespace was kept
\* and another comment was dropped
C7_Witness ==
    /\ pc = "pruned"
    /\ ~prune_call.long
    /\ prune_call.min_length > 0
    /\ Len(prune_call.sample) > Len(kept_comments)
    /\ \E k \in 1 .. Len(kept_comments) :
          Len(strip(kept_comments[k])) < Len(kept_comments[k])

\* C8: the result of prune_comments has at most min(500, n) elements and is a
\* sub-multiset of the input, as is the sample it was filtered from.
C8_BoundedSubMultiset ==
    pc = "pruned" =>
        /\ BagCardinality(PruneOutput) <= Min(500, BagCardinality(PruneInput))
        /\ BagCardinality(PruneSample) <= Min(500, BagCardinality(PruneInput))
        /\ \A c \in BagToSet(PruneSample) :
              CopiesIn(c, PruneSample) <= CopiesIn(c, PruneInput)
        /\ \A c \in BagToSet(PruneOutput) :
              /\ CopiesIn(c, PruneOutput) <= CopiesIn(c, PruneSample)
              /\ CopiesIn(c, PruneOutput) <= CopiesIn(c, PruneInput)

\* C8 witness: of more than 500 comments with repeated values, 500 were kept
C8_Witness ==
    /\ pc = "pruned"
    /\ prune_call.long
    /\ BagCardinality(prune_call.comments) > 500
    /\ BagCardinality(kept_comments) = 500
    /\ Cardinality(BagToSet(kept_comments)) > 1

\* C9: the comment of every record is the element of the analyzed sequence
\* at the record's original_index.
C9_CommentAtOriginalIndex ==
    \A r \in 1 .. Len(all_results) :
        /\ PyIndexValid(kept_comments, all_results[r].original_index)
        /\ all_results[r].comment =
              PyIndex(kept_comments, all_results[r].original_index)

\* C10: no two records have the same original_index, so there are at most as
\* many records as analyzed comments.
C10_OneRecordPerComment ==
    /\ \A x, y \in 1 .. Len(all_results) :
          x # y => all_results[x].original_index # all_results[y].original_index
    /\ Len(all_results) <= Len(kept_comments)
    /\ pc = "done" => res.analysis_stats.total_analyzed <= Len(kept_comments)

====
